---- MODULE Spec2Model ----
(***************************************************************************)
(* Model of PasswordFeatureExtractor (feature_extractor.py).               *)
(*                                                                         *)
(* A password is a sequence of Unicode code points.  A Python float or int *)
(* is modelled by an integer in a fixed unit per feature:                  *)
(*   - counts and the 0.0/1.0 flags: the number itself (1.0 is 1);         *)
(*   - ratios, log_length, entropy, normalized_entropy: millionths;        *)
(*     _calculate_entropy itself computes in IEEE 754 doubles;             *)
(*   - complexity_score: tenths (0.5 is 5, 0.3 is 3).                      *)
(* A call either returns a value or raises; both are results:              *)
(*   [exc |-> "none", val |-> v]  or  [exc |-> "TypeError", val |-> 0].    *)
(***************************************************************************)
EXTENDS Integers, Sequences, FiniteSets, TLC

\* ------------------------------------------------------------------------
\* Bounds of the check
\* ------------------------------------------------------------------------

\* longest password enumerated exhaustively over Alphabet
MaxLen == 4

\* '!', '1', '2', '3', 'B', 'a', 'c', and U+0130 (capital I with dot above),
\* whose str.lower() is the two code points 'i' U+0307
Alphabet == {33, 49, 50, 51, 66, 97, 99, 304}

\* passwords named by the documentation, the common-password list and the
\* keyboard rows, longer than MaxLen or outside Alphabet
Literals ==
    { <<112, 97, 115, 115, 119, 111, 114, 100>>,        \* password
      <<80, 65, 83, 83, 87, 79, 82, 68>>,               \* PASSWORD
      <<80, 97, 115, 115, 87, 111, 114, 100>>,          \* PassWord
      <<112, 97, 115, 115, 119, 111, 114, 100, 115>>,   \* passwords
      <<112, 97, 115, 115, 119, 111, 114, 100, 49>>,    \* password1
      <<49, 50, 51, 52, 53>>,                           \* 12345
      <<49, 50, 51, 52, 53, 54>>,                       \* 123456
      <<49, 50, 51, 52, 53, 54, 55, 56, 57, 48>>,       \* 1234567890
      <<97, 98, 99, 49, 50, 51>>,                       \* abc123
      <<97, 100, 109, 105, 110>>,                       \* admin
      <<113, 119, 101, 114, 116, 121>>,                 \* qwerty
      <<113, 119, 101>>,                                \* qwe
      <<113, 119, 101, 113, 119, 101>>,                 \* qweqwe
      <<49, 50, 51, 49, 50, 51>>,                       \* 123123
      <<49, 50, 51, 52>>,                               \* 1234
      <<97, 98, 99>>,                                   \* abc
      <<97, 98, 99, 100>>,                              \* abcd
      <<97, 66, 99, 68>>,                               \* aBcD
      <<97, 97, 97, 97, 97>>,                           \* aaaaa
      <<97, 65, 97>>,                                   \* aAa
      <<97, 115, 100, 102, 49, 50, 51, 52>>,            \* asdf1234
      <<83, 97, 109, 112, 108, 101, 49, 33>>,           \* Sample1!
      <<97, 98, 304, 33>> }                             \* ab + U+0130 + !

Passwords == UNION { [1..n -> Alphabet] : n \in 0..MaxLen } \cup Literals

\* ------------------------------------------------------------------------
\* Results of a call: a returned value or a raised exception
\* ------------------------------------------------------------------------

Ok(v) == [exc |-> "none", val |-> v]

Raise(e) == [exc |-> e, val |-> 0]

\* ------------------------------------------------------------------------
\* Python's str methods on one character (a code point)
\* ------------------------------------------------------------------------

\* str.isdigit: '0'..'9'
isdigit(c) == c \in 48..57

\* str.isupper: 'A'..'Z' and U+0130
isupper(c) == c \in 65..90 \/ c = 304

\* str.islower: 'a'..'z'
islower(c) == c \in 97..122

\* str.isalpha: the cased letters and the caseless letter U+4E2D (a CJK
\* ideograph); the combining dot U+0307 is no letter
isalpha(c) == isupper(c) \/ islower(c) \/ c = 20013

\* str.isalnum
isalnum(c) == isalpha(c) \/ isdigit(c)

\* variant: the comparison forgets .lower()
lower_char_identity(c) == <<c>>

\* str.lower of one character: a string, of two characters for U+0130
lower_char(c) ==
    IF c \in 65..90 THEN <<c + 32>>
    ELSE IF c = 304 THEN <<105, 775>>
    ELSE <<c>>

RECURSIVE lower(_)
\* str.lower of a string: the characters' lowercase forms, concatenated
lower(s) == IF s = <<>> THEN <<>> ELSE lower_char(Head(s)) \o lower(Tail(s))

\* ord(): defined on a string of exactly one character, TypeError otherwise
ord(s) == IF Len(s) = 1 THEN Ok(s[1]) ELSE Raise("TypeError")

\* a / b for a in millionths and b an integer: ZeroDivisionError when b is 0
truediv(a, b) == IF b = 0 THEN Raise("ZeroDivisionError") ELSE Ok(a \div b)

\* max(a, b) and min(a, b)
max(a, b) == IF a >= b THEN a ELSE b

min(a, b) == IF a <= b THEN a ELSE b

\* pattern in text, for strings
IsSubstring(pattern, text) ==
    \E k \in 0..(Len(text) - Len(pattern)) :
        \A j \in 1..Len(pattern) : text[k + j] = pattern[j]

\* ------------------------------------------------------------------------
\* A Python dict: keys in insertion order, and their values
\* ------------------------------------------------------------------------

EmptyDict == [keys |-> <<>>, val |-> <<>>]

HasKey(d, k) == \E i \in 1..Len(d.keys) : d.keys[i] = k

\* d[k] = v: a new key goes last, an existing key keeps its place
DictSet(d, k, v) ==
    IF HasKey(d, k)
    THEN [keys |-> d.keys,
          val |-> [i \in 1..Len(d.keys) |-> IF d.keys[i] = k THEN v ELSE d.val[i]]]
    ELSE [keys |-> Append(d.keys, k), val |-> Append(d.val, v)]

\* d[k]
DictGet(d, k) == d.val[CHOOSE i \in 1..Len(d.keys) : d.keys[i] = k]

\* ------------------------------------------------------------------------
\* Constants of the module
\* ------------------------------------------------------------------------

\* self.common_passwords as __init__ builds it ('1234567890' is listed twice)
CommonPasswords ==
    { <<112, 97, 115, 115, 119, 111, 114, 100>>,        \* password
      <<49, 50, 51, 52, 53, 54>>,                       \* 123456
      <<49, 50, 51, 52, 53, 54, 55, 56, 57>>,           \* 123456789
      <<49, 50, 51, 52, 53, 54, 55, 56>>,               \* 12345678
      <<49, 50, 51, 52, 53>>,                           \* 12345
      <<49, 50, 51, 52, 53, 54, 55>>,                   \* 1234567
      <<49, 50, 51, 52, 53, 54, 55, 56, 57, 48>>,       \* 1234567890
      <<113, 119, 101, 114, 116, 121>>,                 \* qwerty
      <<97, 98, 99, 49, 50, 51>>,                       \* abc123
      <<112, 97, 115, 115, 119, 111, 114, 100, 49>>,    \* password1
      <<97, 100, 109, 105, 110>>,                       \* admin
      <<108, 101, 116, 109, 101, 105, 110>>,            \* letmein
      <<119, 101, 108, 99, 111, 109, 101>>,             \* welcome
      <<109, 111, 110, 107, 101, 121>> }                \* monkey

\* keyboard_rows of _detect_keyboard_patterns
keyboard_rows ==
    << <<113, 119, 101, 114, 116, 121, 117, 105, 111, 112>>,   \* qwertyuiop
       <<97, 115, 100, 102, 103, 104, 106, 107, 108>>,         \* asdfghjkl
       <<122, 120, 99, 118, 98, 110, 109>>,                    \* zxcvbnm
       <<49, 50, 51, 52, 53, 54, 55, 56, 57, 48>> >>           \* 1234567890

\* math.log(k) for k = 1..17, in millionths, rounded
LnTable ==
    <<0, 693147, 1098612, 1386294, 1609438, 1791759, 1945910, 2079442,
      2197225, 2302585, 2397895, 2484907, 2564949, 2639057, 2708050,
      2772589, 2833213>>

\* math.log(x) for an integer x: ValueError unless x > 0
math_log(x) == IF x <= 0 THEN Raise("ValueError") ELSE Ok(LnTable[x])

\* ------------------------------------------------------------------------
\* Python floats of _calculate_entropy: IEEE 754 doubles
\*
\* A double x >= 0 below 8 that is a multiple of 2^-56 is the pair
\* [hi, lo] with x = (hi * 2^28 + lo) * 2^-56 and lo < 2^28.  Every term and
\* every partial sum of the entropy of a password of at most 16 characters
\* is such a number.
\* ------------------------------------------------------------------------

\* 2^28, the weight of hi
Limb == 268435456

\* 0.0
FloatZero == [hi |-> 0, lo |-> 0]

RECURSIVE BitLength(_)
\* the number of bits of n >= 0
BitLength(n) == IF n = 0 THEN 0 ELSE 1 + BitLength(n \div 2)

RECURSIVE Pow2(_)
Pow2(k) == IF k = 0 THEN 1 ELSE 2 * Pow2(k - 1)

\* a double keeps 53 significant bits: the number of low bits of the exact
\* value hi * 2^28 + lo that do not fit
DroppedBits(hi) == IF BitLength(hi) > 25 THEN BitLength(hi) - 25 ELSE 0

\* the exact value [hi, lo] rounded to 53 significant bits, ties to even
float_round(hi, lo) ==
    LET q     == Pow2(DroppedBits(hi))
        r     == lo % q
        down  == lo - r
        up    == (2 * r > q) \/ (2 * r = q /\ (lo \div q) % 2 = 1)
        lo2   == IF up THEN down + q ELSE down
    IN  IF lo2 >= Limb THEN [hi |-> hi + 1, lo |-> lo2 - Limb]
        ELSE [hi |-> hi, lo |-> lo2]

\* variant: the sum is kept exactly, as in real arithmetic
float_add_exact(x, y) ==
    LET lo == x.lo + y.lo
    IN  [hi |-> x.hi + y.hi + lo \div Limb, lo |-> lo % Limb]

\* x + y on doubles: the exact sum, rounded
float_add(x, y) ==
    LET lo == x.lo + y.lo
    IN  float_round(x.hi + y.hi + lo \div Limb, lo % Limb)

\* the double x in millionths, rounded down: the unit the feature vector
\* keeps entropy in
float_micro(x) ==
    LET A == (x.hi \div 16384) * 15625
        B == (x.hi % 16384) * 15625
        C == ((x.lo \div 16384) * 15625) \div 16384
    IN  A \div 256 + (((A % 256) * 16384 + B + C) \div 4194304)

\* PLog2Table[n][c] is the double -(probability * math.log2(probability))
\* for probability = c / n, 1 <= c <= n <= 16, as <<hi, lo>>
PLog2Table ==
    <<
       << <<0, 0>> >>,
       << <<134217728, 0>>, <<0, 0>> >>,
       << <<141820043, 234790104>>, <<104683117, 22187784>>, <<0, 0>> >>,
       << <<134217728, 0>>, <<134217728, 0>>, <<83558085, 75702040>>, <<0, 0>> >>,
       << <<124657565, 104705952>>, <<141940948, 102037720>>, <<118696617, 52556952>>, <<69133531, 257762540>>, <<0, 0>> >>,
       << <<115649264, 162134292>>, <<141820043, 234790104>>, <<134217728, 0>>, <<104683117, 22187784>>, <<58839800, 150700448>>, <<0, 0>> >>,
       << <<107656228, 101866552>>, <<138616612, 50341416>>, <<140628628, 195466288>>, <<123841535, 62334920>>, <<93075551, 58687092>>, <<51169723, 199192964>>, <<0, 0>> >>,
       << <<100663296, 0>>, <<134217728, 0>>, <<142442338, 172068752>>, <<134217728, 0>>, <<113761588, 41892648>>, <<83558085, 75702040>>, <<45248673, 47155992>>, <<0, 0>> >>,
       << <<94546695, 246005220>>, <<129441068, 74444180>>, <<141820043, 234790104>>, <<139577489, 119062192>>, <<126462464, 163696028>>, <<104683117, 22187784>>, <<75698516, 242818736>>, <<40545684, 178472068>>, <<0, 0>> >>,
       << <<89172328, 79196524>>, <<124657565, 104705952>>, <<139878945, 106809112>>, <<141940948, 102037720>>, <<134217728, 0>>, <<118696617, 52556952>>, <<96690779, 1542452>>, <<69133531, 257762540>>, <<36722717, 196521418>>, <<0, 0>> >>,
       << <<84421282, 50019800>>, <<120036117, 222055716>>, <<137229265, 55571296>>, <<142459342, 151272752>>, <<138793762, 85340584>>, <<128039190, 208755488>>, <<111389412, 140401624>>, <<89692898, 253739048>>, <<63584051, 151685038>>, <<33555291, 243890846>>, <<0, 0>> >>,
       << <<80194253, 170545632>>, <<115649264, 162134292>>, <<134217728, 0>>, <<141820043, 234790104>>, <<141268006, 254307192>>, <<134217728, 0>>, <<121763509, 151514932>>, <<104683117, 22187784>>, <<83558085, 75702040>>, <<58839800, 150700448>>, <<30888861, 74197620>>, <<0, 0>> >>,
       << <<76409940, 64831616>>, <<111522118, 5769940>>, <<131046713, 114543376>>, <<140448711, 32188760>>, <<142323613, 246693752>>, <<138200139, 125842336>>, <<129088413, 49213860>>, <<115706372, 105675280>>, <<98590818, 103775700>>, <<78158415, 142356516>>, <<54742023, 226929970>>, <<28613704, 45195851>>, <<0, 0>> >>,
       << <<73002075, 89281200>>, <<107656228, 101866552>>, <<127836197, 212776912>>, <<138616612, 50341416>>, <<142407581, 86865432>>, <<140628628, 195466288>>, <<134217728, 0>>, <<123841535, 62334920>>, <<109998508, 204695204>>, <<93075551, 58687092>>, <<73381746, 242995840>>, <<51169723, 199192964>>, <<26649843, 147957868>>, <<0, 0>> >>,
       << <<69916530, 153442796>>, <<104041667, 2658740>>, <<124657565, 104705952>>, <<136500545, 202170144>>, <<141820043, 234790104>>, <<141940948, 102037720>>, <<137738701, 79194680>>, <<129835514, 261174712>>, <<118696617, 52556952>>, <<104683117, 22187784>>, <<88083493, 85365988>>, <<69133531, 257762540>>, <<48029570, 190578316>>, <<24937643, 176285069>>, <<0, 0>> >>,
       << <<67108864, 0>>, <<100663296, 0>>, <<121552817, 86034376>>, <<134217728, 0>>, <<140766874, 20946320>>, <<142442338, 172068752>>, <<140064848, 157795720>>, <<134217728, 0>>, <<125337127, 247770792>>, <<113761588, 41892648>>, <<99761557, 125041752>>, <<83558085, 75702040>>, <<65335238, 53413586>>, <<45248673, 47155992>>, <<23431748, 224575383>>, <<0, 0>> >> >>

\* -(probability * math.log2(probability)) for probability = count / length
plog2(count, length) ==
    [hi |-> PLog2Table[length][count][1], lo |-> PLog2Table[length][count][2]]

\* ------------------------------------------------------------------------
\* _calculate_entropy
\* ------------------------------------------------------------------------

RECURSIVE char_counts_loop(_, _)
\* for char in password: char_counts[char] = char_counts.get(char, 0) + 1
char_counts_loop(s, counts) ==
    IF s = <<>> THEN counts
    ELSE char_counts_loop(Tail(s),
            DictSet(counts, Head(s),
                    (IF HasKey(counts, Head(s)) THEN DictGet(counts, Head(s)) ELSE 0) + 1))

RECURSIVE entropy_loop(_, _, _)
\* for count in char_counts.values(): entropy -= probability * log2(probability)
\* in the order of the dict, which is the order of first occurrence
entropy_loop(values, length, entropy) ==
    IF values = <<>> THEN entropy
    ELSE entropy_loop(Tail(values), length,
            IF Head(values) > 0 THEN float_add(entropy, plog2(Head(values), length))
            ELSE entropy)

calculate_entropy(password) ==
    IF password = <<>> THEN FloatZero
    ELSE entropy_loop(char_counts_loop(password, EmptyDict).val, Len(password), FloatZero)

\* ------------------------------------------------------------------------
\* _count_sequential_chars, _count_repeated_chars, _detect_keyboard_patterns
\* ------------------------------------------------------------------------

RECURSIVE sequential_loop(_, _, _)
\* the loop body for window i (1-based), with Python's evaluation order:
\* in the letter branch ord(password[i+1].lower()) is evaluated first, then
\* ord(password[i].lower()); the right operand of "and" only when the left
\* comparison is true
sequential_loop(p, i, count) ==
    IF i > Len(p) - 2 THEN Ok(count)
    ELSE IF isdigit(p[i]) /\ isdigit(p[i+1]) /\ isdigit(p[i+2])
    THEN sequential_loop(p, i + 1,
            IF p[i+1] = p[i] + 1 /\ p[i+2] = p[i+1] + 1 THEN count + 1 ELSE count)
    ELSE IF isalpha(p[i]) /\ isalpha(p[i+1]) /\ isalpha(p[i+2])
    THEN LET a == ord(lower_char(p[i]))
             b == ord(lower_char(p[i+1]))
             c == ord(lower_char(p[i+2]))
         IN  IF b.exc # "none" THEN b
             ELSE IF a.exc # "none" THEN a
             ELSE IF b.val # a.val + 1 THEN sequential_loop(p, i + 1, count)
             ELSE IF c.exc # "none" THEN c
             ELSE sequential_loop(p, i + 1,
                     IF c.val = b.val + 1 THEN count + 1 ELSE count)
    ELSE sequential_loop(p, i + 1, count)

count_sequential_chars(password) == sequential_loop(password, 1, 0)

RECURSIVE repeated_loop_skip(_, _, _)
\* variant: a matched window is consumed, the next window starts after it
repeated_loop_skip(p, i, count) ==
    IF i > Len(p) - 2 THEN count
    ELSE IF p[i] = p[i+1] /\ p[i+1] = p[i+2]
    THEN repeated_loop_skip(p, i + 3, count + 1)
    ELSE repeated_loop_skip(p, i + 1, count)

RECURSIVE repeated_loop(_, _, _)
repeated_loop(p, i, count) ==
    IF i > Len(p) - 2 THEN count
    ELSE repeated_loop(p, i + 1,
            IF p[i] = p[i+1] /\ p[i+1] = p[i+2] THEN count + 1 ELSE count)

count_repeated_chars(password) == repeated_loop(password, 1, 0)

\* password_lower.count(pattern), overlapping occurrences included
Occurrences(pattern, text) ==
    Cardinality({ k \in 0..(Len(text) - Len(pattern)) :
                    \A j \in 1..Len(pattern) : text[k + j] = pattern[j] })

RECURSIVE pattern_loop_occurrences(_, _, _, _)
\* variant: every occurrence of a 3-gram counts
pattern_loop_occurrences(row, i, password_lower, count) ==
    IF i > Len(row) - 2 THEN count
    ELSE pattern_loop_occurrences(row, i + 1, password_lower,
            count + Occurrences(SubSeq(row, i, i + 2), password_lower))

RECURSIVE pattern_loop(_, _, _, _)
\* for i in range(len(row) - 2): if row[i:i+3] in password_lower: count += 1
pattern_loop(row, i, password_lower, count) ==
    IF i > Len(row) - 2 THEN count
    ELSE pattern_loop(row, i + 1, password_lower,
            IF IsSubstring(SubSeq(row, i, i + 2), password_lower)
            THEN count + 1 ELSE count)

RECURSIVE row_loop(_, _, _)
\* for row in keyboard_rows
row_loop(rows, password_lower, count) ==
    IF rows = <<>> THEN count
    ELSE row_loop(Tail(rows), password_lower,
                  pattern_loop(Head(rows), 1, password_lower, count))

detect_keyboard_patterns(password) == row_loop(keyboard_rows, lower(password), 0)

\* _has_sequence: the count's exception, or whether the count is positive
has_sequence(password) ==
    LET n == count_sequential_chars(password)
    IN  IF n.exc # "none" THEN n ELSE Ok(n.val > 0)

\* variant: one repeated window is tolerated
has_repetition_two(password) == count_repeated_chars(password) > 1

has_repetition(password) == count_repeated_chars(password) > 0

\* ------------------------------------------------------------------------
\* _calculate_complexity, in tenths
\* ------------------------------------------------------------------------

\* len(set(password))
unique_chars(password) == Cardinality({ password[i] : i \in 1..Len(password) })

is_special(c) == ~isalnum(c)

\* the score before the penalties
complexity_bonus(password) ==
    min(Len(password) * 5, 100)
    + unique_chars(password) * 3
    + (IF \E i \in 1..Len(password) : isupper(password[i]) THEN 20 ELSE 0)
    + (IF \E i \in 1..Len(password) : islower(password[i]) THEN 20 ELSE 0)
    + (IF \E i \in 1..Len(password) : isdigit(password[i]) THEN 20 ELSE 0)
    + (IF \E i \in 1..Len(password) : is_special(password[i]) THEN 30 ELSE 0)

\* variant: the score is returned unclamped
complexity_clamp_none(score) == score

\* return max(score, 0)
complexity_clamp(score) == max(score, 0)

calculate_complexity(self, password) ==
    LET seq == has_sequence(password)
    IN  IF seq.exc # "none" THEN seq
        ELSE Ok(complexity_clamp(
                complexity_bonus(password)
                - (IF seq.val THEN 30 ELSE 0)
                - (IF has_repetition(password) THEN 20 ELSE 0)
                - (IF lower(password) \in self THEN 100 ELSE 0)))

\* ------------------------------------------------------------------------
\* extract_features
\* ------------------------------------------------------------------------

\* 1.0 if cond else 0.0
flag(cond) == IF cond THEN 1 ELSE 0

\* variant: the divisor is the bare length
denominator_unguarded(password) == Len(password)

\* max(len(password), 1), the divisor of the ratios and of normalized_entropy
denominator(password) == max(Len(password), 1)

\* variant: the membership test forgets .lower()
is_common_case_sensitive(self, password) == flag(password \in self)

\* 1.0 if password.lower() in self.common_passwords else 0.0
is_common(self, password) == flag(lower(password) \in self)

\* variant: has_special is left out of the sum
char_types_three(has_uppercase, has_lowercase, has_digits, has_special) ==
    has_uppercase + has_lowercase + has_digits

\* char_types = sum([features['has_uppercase'], features['has_lowercase'],
\*                   features['has_digits'], features['has_special']])
char_types(has_uppercase, has_lowercase, has_digits, has_special) ==
    has_uppercase + has_lowercase + has_digits + has_special

\* the assignments features[key] = value of extract_features, in statement
\* order; each value is the result of evaluating the right-hand side
feature_statements(self, password) ==
    LET n       == Len(password)
        \* sum(1 for c in password if ...): one for each position
        num_up  == Cardinality({ i \in 1..n : isupper(password[i]) })
        num_lo  == Cardinality({ i \in 1..n : islower(password[i]) })
        num_di  == Cardinality({ i \in 1..n : isdigit(password[i]) })
        num_sp  == Cardinality({ i \in 1..n : is_special(password[i]) })
        entropy == float_micro(calculate_entropy(password))
        seq     == has_sequence(password)
    IN  << <<"length", Ok(n)>>,
           <<"log_length", math_log(n + 1)>>,
           <<"num_uppercase", Ok(num_up)>>,
           <<"num_lowercase", Ok(num_lo)>>,
           <<"num_digits", Ok(num_di)>>,
           <<"num_special", Ok(num_sp)>>,
           <<"ratio_uppercase", truediv(num_up * 1000000, denominator(password))>>,
           <<"ratio_lowercase", truediv(num_lo * 1000000, denominator(password))>>,
           <<"ratio_digits", truediv(num_di * 1000000, denominator(password))>>,
           <<"ratio_special", truediv(num_sp * 1000000, denominator(password))>>,
           <<"has_uppercase", Ok(flag(num_up > 0))>>,
           <<"has_lowercase", Ok(flag(num_lo > 0))>>,
           <<"has_digits", Ok(flag(num_di > 0))>>,
           <<"has_special", Ok(flag(num_sp > 0))>>,
           <<"char_type_count",
             Ok(char_types(flag(num_up > 0), flag(num_lo > 0),
                           flag(num_di > 0), flag(num_sp > 0)))>>,
           <<"entropy", Ok(entropy)>>,
           <<"normalized_entropy", truediv(entropy, denominator(password))>>,
           <<"complexity_score", calculate_complexity(self, password)>>,
           <<"sequential_chars", count_sequential_chars(password)>>,
           <<"repeated_chars", Ok(count_repeated_chars(password))>>,
           <<"keyboard_patterns", Ok(detect_keyboard_patterns(password))>>,
           <<"is_common", Ok(is_common(self, password))>>,
           <<"has_sequence", IF seq.exc # "none" THEN seq ELSE Ok(flag(seq.val))>>,
           <<"has_repetition", Ok(flag(has_repetition(password)))>>,
           <<"starts_with_uppercase", Ok(flag(password # <<>> /\ isupper(password[1])))>>,
           <<"ends_with_digit", Ok(flag(password # <<>> /\ isdigit(password[Len(password)])))>> >>

RECURSIVE run_statements_drop_last(_, _)
\* variant: the last assignment is missing
run_statements_drop_last(stmts, features) ==
    IF Len(stmts) <= 1 THEN Ok(features)
    ELSE IF Head(stmts)[2].exc # "none" THEN Head(stmts)[2]
    ELSE run_statements_drop_last(Tail(stmts),
                        DictSet(features, Head(stmts)[1], Head(stmts)[2].val))

RECURSIVE run_statements_sparse(_, _)
\* variant: a feature whose value is zero is not stored
run_statements_sparse(stmts, features) ==
    IF stmts = <<>> THEN Ok(features)
    ELSE IF Head(stmts)[2].exc # "none" THEN Head(stmts)[2]
    ELSE run_statements_sparse(Tail(stmts),
            IF Head(stmts)[2].val = 0 THEN features
            ELSE DictSet(features, Head(stmts)[1], Head(stmts)[2].val))

RECURSIVE run_statements(_, _)
\* executes the assignments in order on the dict features: the first
\* exception ends the call, otherwise the dict is returned
run_statements(stmts, features) ==
    IF stmts = <<>> THEN Ok(features)
    ELSE IF Head(stmts)[2].exc # "none" THEN Head(stmts)[2]
    ELSE run_statements(Tail(stmts),
                        DictSet(features, Head(stmts)[1], Head(stmts)[2].val))

extract_features(self, password) ==
    run_statements(feature_statements(self, password), EmptyDict)

\* "Sample1!"
SamplePassword == <<83, 97, 109, 112, 108, 101, 49, 33>>

\* list(self.extract_features("Sample1!").keys())
get_feature_names(self) ==
    LET sample_features == extract_features(self, SamplePassword)
    IN  IF sample_features.exc # "none" THEN sample_features
        ELSE Ok(sample_features.val.keys)

\* ------------------------------------------------------------------------
\* Python values of the training and inference layers
\* ------------------------------------------------------------------------

None == [type |-> "NoneType"]

Str(s) == [type |-> "str", s |-> s]

List(items) == [type |-> "list", items |-> items]

\* a fitted estimator: its name in model_configs, whether model.fit was given
\* scaler-transformed inputs, and the train_models call (1, 2, ...) on whose
\* training split it was fitted
Model(name, scaled, fit) ==
    [type |-> "model", name |-> name, scaled |-> scaled, fit |-> fit]

\* a StandardScaler: fit is 0 as constructed, k once fit_transform was given
\* the training split of the k-th train_models call
Scaler(fit) == [type |-> "StandardScaler", fit |-> fit]

\* an array handed to predict: its values, and the scaler that transformed
\* them (None for untransformed values)
Array(values, scaled_by) == [values |-> values, scaled_by |-> scaled_by]

\* scaler.transform(values)
scaler_transform(scaler, values) ==
    IF scaler = None THEN Raise("AttributeError")
    ELSE IF scaler.fit = 0 THEN Raise("NotFittedError")
    ELSE Ok(Array(values, scaler))

\* obj[key] of a loaded bundle
subscript(obj, key) ==
    IF obj = None THEN Raise("TypeError")
    ELSE IF HasKey(obj, key) THEN Ok(DictGet(obj, key))
    ELSE Raise("KeyError")

\* ------------------------------------------------------------------------
\* The model file and joblib
\* ------------------------------------------------------------------------

\* no file at model_path
FileMissing == [state |-> "missing"]

\* a file that is no pickle
FileCorrupt == [state |-> "corrupt"]

\* a file joblib.dump wrote
Pickle(obj) == [state |-> "pickle", obj |-> obj]

joblib_load(file) ==
    IF file.state = "missing" THEN Raise("FileNotFoundError")
    ELSE IF file.state = "corrupt" THEN Raise("UnpicklingError")
    ELSE Ok(file.obj)

\* the dict save_model dumps, cut after its first n keys
Bundle(model, scaler, feature_columns, model_name, n) ==
    LET full == DictSet(DictSet(DictSet(DictSet(EmptyDict,
                    "model", model), "scaler", scaler),
                    "feature_columns", feature_columns), "model_name", model_name)
    IN  [keys |-> SubSeq(full.keys, 1, n), val |-> SubSeq(full.val, 1, n)]

\* ------------------------------------------------------------------------
\* PasswordStrengthClassifier and ModelEvaluator
\* ------------------------------------------------------------------------

\* the attributes __init__ sets, the same in both classes
NewObject ==
    [model_data |-> None, model |-> None, scaler |-> None, feature_columns |-> None]

\* the statements both load_model methods share: the load and the four
\* subscripts, each of which may raise; self is left as the statements
\* before the exception set it
load_statements(self, file) ==
    LET loaded  == joblib_load(file)
        s1      == [self EXCEPT !.model_data = loaded.val]
        model   == subscript(loaded.val, "model")
        s2      == [s1 EXCEPT !.model = model.val]
        scaler == subscript(loaded.val, "scaler")
        s3      == [s2 EXCEPT !.scaler = scaler.val]
        columns == subscript(loaded.val, "feature_columns")
        s4      == [s3 EXCEPT !.feature_columns = columns.val]
        name    == subscript(loaded.val, "model_name")
    IN  IF loaded.exc # "none" THEN [self |-> self, exc |-> loaded.exc]
        ELSE IF model.exc # "none" THEN [self |-> s1, exc |-> model.exc]
        ELSE IF scaler.exc # "none" THEN [self |-> s2, exc |-> scaler.exc]
        ELSE IF columns.exc # "none" THEN [self |-> s3, exc |-> columns.exc]
        ELSE IF name.exc # "none" THEN [self |-> s4, exc |-> name.exc]
        ELSE [self |-> s4, exc |-> "none"]

\* PasswordStrengthClassifier.load_model: every exception is caught,
\* reported and turned into False
classifier_load_model(self, file) ==
    LET body == load_statements(self, file)
    IN  [self |-> body.self,
         printed |-> IF body.exc = "none" THEN <<"Model loaded successfully">>
                     ELSE IF body.exc = "FileNotFoundError"
                     THEN <<"Error: Model file not found", "Please train the model first">>
                     ELSE <<"Error loading model">>,
         ret |-> Ok(body.exc = "none")]

\* ModelEvaluator.load_model: no try, an exception leaves the method
evaluator_load_model(self, file) ==
    LET body == load_statements(self, file)
    IN  [self |-> body.self,
         printed |-> IF body.exc = "none" THEN <<"Loading model", "Model loaded">>
                     ELSE <<"Loading model">>,
         ret |-> IF body.exc = "none" THEN Ok(None) ELSE Raise(body.exc)]

\* [features[col] for col in self.feature_columns]: KeyError for a column
\* that is no key of features
feature_vector(features, columns) ==
    IF \E i \in 1..Len(columns) : ~HasKey(features, columns[i])
    THEN Raise("KeyError")
    ELSE Ok([i \in 1..Len(columns) |-> DictGet(features, columns[i])])

\* model_name == 'SVM' or model_name == 'Logistic Regression'
needs_scaling(model_name) ==
    model_name = Str("SVM") \/ model_name = Str("Logistic Regression")

\* model.predict(array): the call made, for a model that is not None
predict(model, array, label) ==
    [predicted |-> << [model |-> model, array |-> array] >>, ret |-> Ok(label)]

\* the statements classify and predict_password_strength share once the
\* features are extracted and the vector is built: scaling by model name,
\* predict, result
predict_vector(self, password, label, vector) ==
    LET name   == subscript(self.model_data, "model_name")
        scaled == scaler_transform(self.scaler, vector)
        array  == IF needs_scaling(name.val) THEN scaled.val ELSE Array(vector, None)
    IN  IF name.exc # "none" THEN [predicted |-> <<>>, ret |-> name]
        ELSE IF needs_scaling(name.val) /\ scaled.exc # "none"
        THEN [predicted |-> <<>>, ret |-> scaled]
        ELSE IF self.model = None
        THEN [predicted |-> <<>>, ret |-> Raise("AttributeError")]
        ELSE [predicted |-> predict(self.model, array, label).predicted,
              ret |-> Ok([password |-> password, strength_label |-> label])]

\* the statements classify and predict_password_strength share after the
\* load: features, feature vector, then the rest (each value is bound once,
\* as an element of a one-element set)
predict_statements(self, extractor, password, label) ==
    CHOOSE out \in
        { IF features.exc # "none" THEN [predicted |-> <<>>, ret |-> features]
          ELSE IF self.feature_columns = None
          THEN [predicted |-> <<>>, ret |-> Raise("TypeError")]
          ELSE CHOOSE result \in
                { IF vector.exc # "none" THEN [predicted |-> <<>>, ret |-> vector]
                  ELSE predict_vector(self, password, label, vector.val) :
                  vector \in { feature_vector(features.val,
                                              self.feature_columns.items) } } : TRUE :
          features \in { extract_features(extractor, password) } } : TRUE

\* PasswordStrengthClassifier.classify
classify(self, file, extractor, password, label) ==
    CHOOSE out \in
        { IF ~load.ret.val
          THEN [self |-> load.self, printed |-> load.printed,
                predicted |-> <<>>, ret |-> Ok(None)]
          ELSE CHOOSE result \in
                { [self |-> load.self, printed |-> load.printed,
                   predicted |-> body.predicted, ret |-> body.ret] :
                  body \in { predict_statements(load.self, extractor,
                                                password, label) } } : TRUE :
          load \in { IF self.model = None THEN classifier_load_model(self, file)
                     ELSE [self |-> self, printed |-> <<>>, ret |-> Ok(TRUE)] } } : TRUE

\* ModelEvaluator.predict_password_strength
predict_password_strength(self, file, extractor, password, label) ==
    CHOOSE out \in
        { IF load.ret.exc # "none"
          THEN [self |-> load.self, printed |-> load.printed,
                predicted |-> <<>>, ret |-> load.ret]
          ELSE CHOOSE result \in
                { [self |-> load.self, printed |-> load.printed,
                   predicted |-> body.predicted, ret |-> body.ret] :
                  body \in { predict_statements(load.self, extractor,
                                                password, label) } } : TRUE :
          load \in { IF self.model = None THEN evaluator_load_model(self, file)
                     ELSE [self |-> self, printed |-> <<>>, ret |-> Ok(None)] } } : TRUE

\* evaluate_on_dataset once the model is loaded, up to its predict, on a
\* dataset with the feature columns given
evaluate_statements(self, columns) ==
    LET name   == subscript(self.model_data, "model_name")
        scaled == scaler_transform(self.scaler, <<"X">>)
        array  == IF needs_scaling(name.val) THEN scaled.val
                  ELSE Array(<<"X">>, None)
    IN  IF self.feature_columns = None
        THEN [predicted |-> <<>>, ret |-> Raise("KeyError")]
        ELSE IF \E i \in 1..Len(self.feature_columns.items) :
                    \A j \in 1..Len(columns) : columns[j] # self.feature_columns.items[i]
        THEN [predicted |-> <<>>, ret |-> Raise("KeyError")]
        ELSE IF name.exc # "none" THEN [predicted |-> <<>>, ret |-> name]
        ELSE IF needs_scaling(name.val) /\ scaled.exc # "none"
        THEN [predicted |-> <<>>, ret |-> scaled]
        ELSE IF self.model = None
        THEN [predicted |-> <<>>, ret |-> Raise("AttributeError")]
        ELSE [predicted |-> predict(self.model, array, 0).predicted, ret |-> Ok(None)]

\* ModelEvaluator.evaluate_on_dataset
evaluate_on_dataset(self, file, columns) ==
    CHOOSE out \in
        { IF load.ret.exc # "none"
          THEN [self |-> load.self, printed |-> load.printed,
                predicted |-> <<>>, ret |-> load.ret]
          ELSE CHOOSE result \in
                { [self |-> load.self, printed |-> load.printed,
                   predicted |-> body.predicted, ret |-> body.ret] :
                  body \in { evaluate_statements(load.self, columns) } } : TRUE :
          load \in { IF self.model = None THEN evaluator_load_model(self, file)
                     ELSE [self |-> self, printed |-> <<>>, ret |-> Ok(None)] } } : TRUE

\* what batch_mode has after classify returned one: the result is kept and
\* displayed unless it is None
batch_append(acc, one) ==
    [self |-> one.self,
     printed |-> acc.printed \o one.printed
        \o (IF one.ret.val = None THEN <<>> ELSE <<"PASSWORD STRENGTH ANALYSIS">>),
     predicted |-> acc.predicted \o one.predicted,
     ret |-> IF one.ret.val = None THEN acc.ret
             ELSE Ok(Append(acc.ret.val, one.ret.val))]

RECURSIVE batch_loop(_, _, _, _, _)
\* for password in passwords: classify, and keep and display the result;
\* an exception in classify leaves the loop and the method
batch_loop(file, extractor, passwords, label, acc) ==
    IF passwords = <<>> THEN acc
    ELSE CHOOSE out \in
        { IF one.ret.exc # "none"
          THEN [self |-> one.self, printed |-> acc.printed \o one.printed,
                predicted |-> acc.predicted \o one.predicted, ret |-> one.ret]
          ELSE CHOOSE result \in
                { batch_loop(file, extractor, Tail(passwords), label, next) :
                  next \in { batch_append(acc, one) } } : TRUE :
          one \in { classify(acc.self, file, extractor, Head(passwords), label) } } : TRUE

\* PasswordStrengthClassifier.batch_mode
batch_mode(self, file, extractor, passwords, label) ==
    CHOOSE out \in
        { IF ~load.ret.val
          THEN [self |-> load.self, printed |-> load.printed,
                predicted |-> <<>>, ret |-> Ok(None)]
          ELSE batch_loop(file, extractor, passwords, label,
                [self |-> load.self, printed |-> load.printed,
                 predicted |-> <<>>, ret |-> Ok(<<>>)]) :
          load \in { classifier_load_model(self, file) } } : TRUE

\* str.strip: leading and trailing whitespace removed; the characters
\* str.isspace holds of
Whitespace ==
    (9..13) \cup (28..32) \cup {133, 160, 5760} \cup (8192..8202)
        \cup {8232, 8233, 8239, 8287, 12288}

RECURSIVE lstrip(_)
lstrip(s) ==
    IF s # <<>> /\ Head(s) \in Whitespace THEN lstrip(Tail(s)) ELSE s

RECURSIVE rstrip(_)
rstrip(s) ==
    IF s # <<>> /\ s[Len(s)] \in Whitespace THEN rstrip(SubSeq(s, 1, Len(s) - 1))
    ELSE s

strip(s) == rstrip(lstrip(s))

\* ['quit', 'exit', 'q']
QuitWords ==
    { <<113, 117, 105, 116>>, <<101, 120, 105, 116>>, <<113>> }

\* variant: the comparison forgets .lower()
is_quit_word_case_sensitive(text) == text \in QuitWords

\* password.lower() in ['quit', 'exit', 'q']
is_quit_word(text) == lower(text) \in QuitWords

\* ------------------------------------------------------------------------
\* PasswordStrengthTrainer
\* ------------------------------------------------------------------------

\* the keys of model_configs, in the order of the dict literal
model_configs == <<"Random Forest", "Gradient Boosting", "SVM", "Logistic Regression">>

\* name == 'SVM' or name == 'Logistic Regression'
fit_on_scaled(name) == name = "SVM" \/ name = "Logistic Regression"

\* the attributes __init__ sets
NewTrainer ==
    [models |-> EmptyDict, scaler |-> Scaler(0), best_model |-> None,
     best_model_name |-> None, feature_columns |-> None]

RECURSIVE train_loop(_, _, _, _, _, _)
\* for name, model in model_configs.items(): fit, predict the validation
\* split, record, and keep the model when accuracy > best_accuracy
train_loop(self, names, accuracy, best_accuracy, fit, predicted) ==
    IF names = <<>> THEN [self |-> self, predicted |-> predicted]
    ELSE LET name  == Head(names)
             model == Model(name, fit_on_scaled(name), fit)
             array == IF fit_on_scaled(name) THEN Array(<<"X_val">>, self.scaler)
                      ELSE Array(<<"X_val">>, None)
             s1    == [self EXCEPT !.models =
                        DictSet(self.models, name,
                                [model |-> model, accuracy |-> Head(accuracy)])]
             s2    == IF Head(accuracy) > best_accuracy
                      THEN [s1 EXCEPT !.best_model = model,
                                      !.best_model_name = Str(name)]
                      ELSE s1
         IN  train_loop(s2, Tail(names), Tail(accuracy),
                        IF Head(accuracy) > best_accuracy THEN Head(accuracy)
                        ELSE best_accuracy,
                        fit,
                        Append(predicted, [model |-> model, array |-> array]))

\* train_models on the fit-th training split; accuracy lists the four
\* validation accuracies (correct predictions) in the order of model_configs
train_models(self, accuracy, fit) ==
    LET s0   == [self EXCEPT !.scaler = Scaler(fit)]
        done == train_loop(s0, model_configs, accuracy, 0, fit, <<>>)
    IN  [self |-> done.self, predicted |-> done.predicted,
         ret |-> Ok(done.self.best_model_name)]

\* evaluate_best_model: the test split is scaled by best_model_name
evaluate_best_model(self) ==
    LET scaled == scaler_transform(self.scaler, <<"X_test">>)
        array  == IF needs_scaling(self.best_model_name) THEN scaled.val
                  ELSE Array(<<"X_test">>, None)
    IN  IF needs_scaling(self.best_model_name) /\ scaled.exc # "none"
        THEN [predicted |-> <<>>, ret |-> scaled]
        ELSE IF self.best_model = None
        THEN [predicted |-> <<>>, ret |-> Raise("AttributeError")]
        ELSE [predicted |-> predict(self.best_model, array, 0).predicted,
              ret |-> Ok(None)]

\* save_model: the file after the call, and the result
save_model(self, file) ==
    IF self.best_model = None THEN [file |-> file, ret |-> Raise("ValueError")]
    ELSE [file |-> Pickle(Bundle(self.best_model, self.scaler, self.feature_columns,
                                 self.best_model_name, 4)),
          ret |-> Ok(None)]

\* ------------------------------------------------------------------------
\* PasswordDatasetGenerator.generate_strong_passwords
\* ------------------------------------------------------------------------

\* "!@#$%^&*()_+-=[]{}|;:,.<>?"
special_chars ==
    {33, 64, 35, 36, 37, 94, 38, 42, 40, 41, 95, 43, 45, 61, 91, 93, 123, 125,
     124, 59, 58, 44, 46, 60, 62, 63}

\* random.randint(12, 20)
MinLength == 12

MaxLength == 20

\* what random.choice draws from string.ascii_uppercase, string.ascii_lowercase,
\* string.digits and special_chars: one character of each, as the fix-ups
\* test nothing but the class of a character
UpperChoices == {65}

LowerChoices == {97}

DigitChoices == {49}

SpecialChoices == {33}

\* password[:idx] + c + password[idx+1:], idx counted from 1
replace_at(password, idx, c) == [password EXCEPT ![idx] = c]

\* if not any(c.isupper() for c in password): a character drawn from
\* string.ascii_uppercase is put at an index drawn from the whole password
ensure_upper(password) ==
    IF \E i \in 1..Len(password) : isupper(password[i]) THEN {password}
    ELSE { replace_at(password, idx, c) : idx \in 1..Len(password), c \in UpperChoices }

ensure_lower(password) ==
    IF \E i \in 1..Len(password) : islower(password[i]) THEN {password}
    ELSE { replace_at(password, idx, c) : idx \in 1..Len(password), c \in LowerChoices }

ensure_digit(password) ==
    IF \E i \in 1..Len(password) : isdigit(password[i]) THEN {password}
    ELSE { replace_at(password, idx, c) : idx \in 1..Len(password), c \in DigitChoices }

ensure_special(password) ==
    IF \E i \in 1..Len(password) : password[i] \in special_chars THEN {password}
    ELSE { replace_at(password, idx, c) : idx \in 1..Len(password), c \in SpecialChoices }

\* the passwords one iteration may append for the string random.choices
\* drew: the four fix-ups in the order upper, lower, digit, special
strong_password(drawn) ==
    UNION { ensure_special(with_digit) :
            with_digit \in UNION { ensure_digit(with_lower) :
                with_lower \in UNION { ensure_lower(with_upper) :
                    with_upper \in ensure_upper(drawn) } } }

\* ------------------------------------------------------------------------
\* The extractor's attributes across calls
\* ------------------------------------------------------------------------

\* variant: the call remembers the password it was given
attributes_after_call_remembering(self, password) == self \cup {lower(password)}

\* self.common_passwords after extract_features(password): no statement of
\* the method assigns to an attribute of self
attributes_after_call(self, password) == self

\* ------------------------------------------------------------------------
\* The extractor and its callers' calls
\* ------------------------------------------------------------------------

VARIABLES
    common_passwords,   \* the extractor's attribute self.common_passwords
    password,           \* the argument of the call
    called,             \* the method called on password, "none" before the call
    ret,                \* the call's result: Ok(value) or Raise(exception)
    password2,          \* the argument of a later call on the same extractor
    called2,            \* the method of the later call, "none" before it
    ret2,               \* the later call's result
    log,                \* the earlier extract_features calls: <<password, result>>
    model_file,         \* what is on disk at model_path
    trainer,            \* a PasswordStrengthTrainer's attributes
    trainings,          \* the train_models calls made so far
    classifier,         \* a PasswordStrengthClassifier's attributes
    evaluator,          \* a ModelEvaluator's attributes
    printed,            \* what the last call printed
    predicted,          \* the predict calls of the last call: model and array
    stdin,              \* the input events still to come
    pc,                 \* "loop" while interactive_mode waits at its prompt
    prompts,            \* the prompts interactive_mode has shown
    classified,         \* the passwords interactive_mode passed to classify
    consumed,           \* the input events interactive_mode has read
    count,              \* the argument of generate_strong_passwords
    passwords,          \* its list passwords
    draft,              \* its local password, between the statements
    step                \* its position: "idle", "upper", "lower", "digit",
                        \* "special", "append", "done"

\* the later call
later == <<password2, called2, ret2>>

\* the objects of the training and inference layers
objects == <<model_file, trainer, trainings, classifier, evaluator>>

\* the output of the last call on them
output == <<printed, predicted>>

\* interactive_mode's terminal
terminal == <<stdin, pc, prompts, classified, consumed>>

\* generate_strong_passwords
generator == <<count, passwords, draft, step>>

\* what a first call on the extractor leaves alone
others == <<later, log, objects, output, terminal, generator>>

vars == <<common_passwords, password, called, ret, others>>

Methods ==
    { "extract_features", "get_feature_names", "_calculate_entropy",
      "_calculate_complexity", "_count_sequential_chars",
      "_count_repeated_chars", "_detect_keyboard_patterns" }

\* no later call yet
LaterIdle ==
    /\ password2 = <<>>
    /\ called2 = "none"
    /\ ret2 = Ok(0)

\* constructed objects, nothing called on them yet
ObjectsIdle ==
    /\ trainer = NewTrainer
    /\ trainings = 0
    /\ classifier = NewObject
    /\ evaluator = NewObject
    /\ printed = <<>>
    /\ predicted = <<>>

\* interactive_mode not started
TerminalIdle ==
    /\ pc = "idle"
    /\ prompts = 0
    /\ classified = <<>>
    /\ consumed = <<>>

\* generate_strong_passwords not called
GeneratorIdle ==
    /\ count = 0
    /\ passwords = <<>>
    /\ draft = <<>>
    /\ step = "idle"

OthersIdle ==
    /\ LaterIdle
    /\ log = <<>>
    /\ model_file = FileMissing
    /\ ObjectsIdle
    /\ stdin = <<>>
    /\ TerminalIdle
    /\ GeneratorIdle

\* a constructed extractor, and a caller about to pass it a password
Init ==
    /\ common_passwords = CommonPasswords
    /\ password \in Passwords
    /\ called = "none"
    /\ ret = Ok(0)
    /\ OthersIdle

\* Each action is one call of a method on password; no method assigns to an
\* attribute of self, so common_passwords is left as it is.

\* features = self.extract_features(password)
CallExtractFeatures ==
    /\ called = "none"
    /\ called' = "extract_features"
    /\ ret' = extract_features(common_passwords, password)
    /\ UNCHANGED <<common_passwords, password, others>>

\* names = self.get_feature_names(); password is not read
CallGetFeatureNames ==
    /\ called = "none"
    /\ called' = "get_feature_names"
    /\ ret' = get_feature_names(common_passwords)
    /\ UNCHANGED <<common_passwords, password, others>>

\* self._calculate_entropy(password)
CallCalculateEntropy ==
    /\ called = "none"
    /\ called' = "_calculate_entropy"
    /\ ret' = Ok(calculate_entropy(password))
    /\ UNCHANGED <<common_passwords, password, others>>

\* self._calculate_complexity(password)
CallCalculateComplexity ==
    /\ called = "none"
    /\ called' = "_calculate_complexity"
    /\ ret' = calculate_complexity(common_passwords, password)
    /\ UNCHANGED <<common_passwords, password, others>>

\* self._count_sequential_chars(password)
CallCountSequentialChars ==
    /\ called = "none"
    /\ called' = "_count_sequential_chars"
    /\ ret' = count_sequential_chars(password)
    /\ UNCHANGED <<common_passwords, password, others>>

\* self._count_repeated_chars(password)
CallCountRepeatedChars ==
    /\ called = "none"
    /\ called' = "_count_repeated_chars"
    /\ ret' = Ok(count_repeated_chars(password))
    /\ UNCHANGED <<common_passwords, password, others>>

\* self._detect_keyboard_patterns(password)
CallDetectKeyboardPatterns ==
    /\ called = "none"
    /\ called' = "_detect_keyboard_patterns"
    /\ ret' = Ok(detect_keyboard_patterns(password))
    /\ UNCHANGED <<common_passwords, password, others>>

Next ==
    \/ CallExtractFeatures
    \/ CallGetFeatureNames
    \/ CallCalculateEntropy
    \/ CallCalculateComplexity
    \/ CallCountSequentialChars
    \/ CallCountRepeatedChars
    \/ CallDetectKeyboardPatterns

Spec == Init /\ [][Next]_vars

TypeOK ==
    /\ common_passwords = CommonPasswords
    /\ password \in Passwords
    /\ called \in Methods \cup {"none"}
    /\ ret.exc \in {"none", "TypeError", "ZeroDivisionError", "ValueError"}

\* ------------------------------------------------------------------------
\* Properties of extract_features: the schema
\* ------------------------------------------------------------------------

\* extract_features was called on password and returned a feature vector
Returned == called = "extract_features" /\ ret.exc = "none"

\* features[k] of the returned vector
Feature(k) == DictGet(ret.val, k)

\* the keys of the feature table of the documentation
DocumentedKeys ==
    { "length", "log_length",
      "num_uppercase", "num_lowercase", "num_digits", "num_special",
      "ratio_uppercase", "ratio_lowercase", "ratio_digits", "ratio_special",
      "has_uppercase", "has_lowercase", "has_digits", "has_special",
      "char_type_count", "entropy", "normalized_entropy", "complexity_score",
      "sequential_chars", "repeated_chars", "keyboard_patterns", "is_common",
      "has_sequence", "has_repetition", "starts_with_uppercase",
      "ends_with_digit" }

KeySet(d) == { d.keys[i] : i \in 1..Len(d.keys) }

\* C1 as stated: a returned feature vector has exactly 24 keys
C1_TwentyFourKeys == Returned => Len(ret.val.keys) = 24

\* C1, amended: every feature vector extract_features returns has exactly the
\* 26 keys of the feature table, each once, never more, never fewer
C1_DocumentedKeys ==
    Returned =>
        /\ KeySet(ret.val) = DocumentedKeys
        /\ Len(ret.val.keys) = 26
        /\ Cardinality(DocumentedKeys) = 26

\* a password of all four classes returned its vector
C1_Witness ==
    /\ Returned
    /\ password = <<66, 97, 49, 33>>
    /\ Len(ret.val.keys) = 26

\* the keys in the order one list would have for every password
SchemaOrder ==
    << "length", "log_length",
       "num_uppercase", "num_lowercase", "num_digits", "num_special",
       "ratio_uppercase", "ratio_lowercase", "ratio_digits", "ratio_special",
       "has_uppercase", "has_lowercase", "has_digits", "has_special",
       "char_type_count", "entropy", "normalized_entropy", "complexity_score",
       "sequential_chars", "repeated_chars", "keyboard_patterns", "is_common",
       "has_sequence", "has_repetition", "starts_with_uppercase",
       "ends_with_digit" >>

\* C2: the keys of a returned dictionary, in insertion order, are the same
\* list for every password, the empty string included, and that list is
\* what get_feature_names() returns, which is the key order of "Sample1!"
C2_SchemaFixed ==
    /\ Returned => ret.val.keys = SchemaOrder
    /\ called = "get_feature_names" =>
          /\ ret.exc = "none"
          /\ ret.val = SchemaOrder

\* the empty string returned a vector with the keys of get_feature_names()
C2_Witness ==
    /\ Returned
    /\ password = <<>>
    /\ ret.val.keys = get_feature_names(common_passwords).val
    /\ Len(ret.val.keys) > 0

\* C3 as stated: extract_features returns a feature vector for every string
\* and never raises
C3_Total == called = "extract_features" => ret.exc = "none"

\* C4: for the empty password the vector has length, entropy, the four
\* ratios, the four has_ flags, char_type_count, complexity_score and
\* is_common all zero, and no division by zero is raised
C4_EmptyPassword ==
    (called = "extract_features" /\ password = <<>>) =>
        /\ ret.exc = "none"
        /\ \A k \in { "length", "entropy", "normalized_entropy",
                      "ratio_uppercase", "ratio_lowercase", "ratio_digits",
                      "ratio_special", "has_uppercase", "has_lowercase",
                      "has_digits", "has_special", "char_type_count",
                      "complexity_score", "is_common" } :
              Feature(k) = 0

\* extract_features("") returned with a zero length
C4_Witness ==
    /\ Returned
    /\ password = <<>>
    /\ Feature("length") = 0
    /\ Feature("ratio_digits") = 0

\* ------------------------------------------------------------------------
\* Properties of the pattern counters
\* ------------------------------------------------------------------------

\* the code point of a character's lowercase form, 0 when that form is not
\* one character
LowerPoint(c) ==
    IF c \in 65..90 THEN c + 32
    ELSE IF c = 304 THEN 0
    ELSE c

\* window i (1-based) of p is three digits, or three letters compared by
\* their lowercase forms, each one code point above its predecessor
AscendingWindow(p, i) ==
    \/ /\ \A j \in 0..2 : p[i + j] \in 48..57
       /\ p[i + 1] = p[i] + 1
       /\ p[i + 2] = p[i + 1] + 1
    \/ /\ \A j \in 0..2 : isalpha(p[i + j]) /\ LowerPoint(p[i + j]) # 0
       /\ LowerPoint(p[i + 1]) = LowerPoint(p[i]) + 1
       /\ LowerPoint(p[i + 2]) = LowerPoint(p[i + 1]) + 1

AscendingWindows(p) == { i \in 1..(Len(p) - 2) : AscendingWindow(p, i) }

\* p is one run of digits, or of letters in any case, each one above its
\* predecessor
AscendingRun(p) ==
    /\ Len(p) >= 3
    /\ \/ \A i \in 1..Len(p) : p[i] \in 48..57
       \/ \A i \in 1..Len(p) : isalpha(p[i]) /\ LowerPoint(p[i]) # 0
    /\ \A i \in 1..(Len(p) - 1) : LowerPoint(p[i + 1]) = LowerPoint(p[i]) + 1

\* C5: the count _count_sequential_chars returns, and the sequential_chars
\* feature, is the number of ascending windows, overlapping ones included:
\* an ascending run of n >= 3 gives n - 2, "1234" gives 2 and "abc" gives 1
C5_SequentialCount ==
    /\ (called = "_count_sequential_chars" /\ ret.exc = "none") =>
          /\ ret.val = Cardinality(AscendingWindows(password))
          /\ AscendingRun(password) => ret.val = Len(password) - 2
          /\ password = <<49, 50, 51, 52>> => ret.val = 2
          /\ password = <<97, 98, 99>> => ret.val = 1
    /\ Returned =>
          Feature("sequential_chars") = Cardinality(AscendingWindows(password))

\* "aBcD", a run of four letters in mixed case, was counted as two windows
C5_Witness ==
    /\ called = "_count_sequential_chars"
    /\ password = <<97, 66, 99, 68>>
    /\ ret = Ok(2)

RepeatedWindows(p) ==
    { i \in 1..(Len(p) - 2) : p[i] = p[i + 1] /\ p[i + 1] = p[i + 2] }

\* C6: the count _count_repeated_chars returns, and the repeated_chars
\* feature, is the number of windows of three identical characters,
\* overlapping ones included: a password that is one character k >= 3 times
\* gives k - 2, and a password shorter than 3 gives 0
C6_RepeatedCount ==
    /\ called = "_count_repeated_chars" =>
          /\ ret = Ok(Cardinality(RepeatedWindows(password)))
          /\ Len(password) < 3 => ret.val = 0
          /\ (Len(password) >= 3 /\ \A i \in 1..Len(password) : password[i] = password[1])
                => ret.val = Len(password) - 2
          /\ password = <<97, 65, 97>> => ret.val = 0
    /\ Returned =>
          Feature("repeated_chars") = Cardinality(RepeatedWindows(password))

\* "aaaa" was counted as two overlapping windows
C6_Witness ==
    /\ called = "_count_repeated_chars"
    /\ password = <<97, 97, 97, 97>>
    /\ ret = Ok(2)

\* the 3-grams of row r, by position
RowGrams(r) == { SubSeq(keyboard_rows[r], i, i + 2) : i \in 1..(Len(keyboard_rows[r]) - 2) }

\* C7: the count _detect_keyboard_patterns returns, and the
\* keyboard_patterns feature, is the number of distinct row 3-grams that
\* occur in the lowercased password, each counted once however often it
\* occurs; there are 28 of them, so the count is in 0..28
C7_KeyboardPatterns ==
    LET grams   == UNION { RowGrams(r) : r \in 1..Len(keyboard_rows) }
        present == { g \in grams : IsSubstring(g, lower(password)) }
    IN  /\ called = "_detect_keyboard_patterns" =>
              /\ ret = Ok(Cardinality(present))
              /\ ret.val \in 0..28
              /\ Cardinality(grams) = 28
              /\ password = <<113, 119, 101>> => ret.val >= 1
        /\ Returned => Feature("keyboard_patterns") = Cardinality(present)

\* "123123" holds the 3-gram "123" twice and was counted once
C7_Witness ==
    /\ called = "_detect_keyboard_patterns"
    /\ password = <<49, 50, 51, 49, 50, 51>>
    /\ Occurrences(<<49, 50, 51>>, lower(password)) = 2
    /\ ret = Ok(1)

\* ------------------------------------------------------------------------
\* Properties of the score and the flags
\* ------------------------------------------------------------------------

\* [cond]: 1 when cond holds, 0 otherwise
Bracket(cond) == IF cond THEN 1 ELSE 0

\* the score of the documentation, in tenths, before the clamp
DocumentedScore(p) ==
    (IF 5 * Len(p) < 100 THEN 5 * Len(p) ELSE 100)
    + 3 * Cardinality({ p[i] : i \in 1..Len(p) })
    + 20 * Bracket(\E i \in 1..Len(p) : isupper(p[i]))
    + 20 * Bracket(\E i \in 1..Len(p) : islower(p[i]))
    + 20 * Bracket(\E i \in 1..Len(p) : isdigit(p[i]))
    + 30 * Bracket(\E i \in 1..Len(p) : ~isalnum(p[i]))
    - 30 * Bracket(AscendingWindows(p) # {})
    - 20 * Bracket(RepeatedWindows(p) # {})
    - 100 * Bracket(lower(p) \in CommonPasswords)

\* C8: the score _calculate_complexity returns, and the complexity_score
\* feature, is the documented sum of bonuses and penalties clamped at 0,
\* and is never negative
C8_ComplexityScore ==
    /\ (called = "_calculate_complexity" /\ ret.exc = "none") =>
          /\ ret.val >= 0
          /\ ret.val = (IF DocumentedScore(password) > 0
                        THEN DocumentedScore(password) ELSE 0)
    /\ Returned =>
          /\ Feature("complexity_score") >= 0
          /\ Feature("complexity_score") =
                (IF DocumentedScore(password) > 0
                 THEN DocumentedScore(password) ELSE 0)

\* "12345" scores 2.5 + 1.5 + 2 - 3 - 10 before the clamp and 0 after it
C8_Witness ==
    /\ called = "_calculate_complexity"
    /\ password = <<49, 50, 51, 52, 53>>
    /\ DocumentedScore(password) = -70
    /\ ret = Ok(0)

\* p is a member of the common-password set with one character inserted
OneCharExtra(p) ==
    \E m \in CommonPasswords :
        /\ Len(p) = Len(m) + 1
        /\ \E k \in 1..Len(p) : SubSeq(p, 1, k - 1) \o SubSeq(p, k + 1, Len(p)) = m

\* C9 as stated: is_common is 1.0 exactly when the lowercased password is in
\* the common-password set, and a common password with any extra character
\* gives 0.0
C9_ExtraCharacterNotCommon ==
    Returned =>
        /\ Feature("is_common") = 1 <=> lower(password) \in CommonPasswords
        /\ OneCharExtra(password) => Feature("is_common") = 0

\* C9, amended: is_common is 1.0 exactly when the lowercased password is a
\* member of the common-password set and 0.0 otherwise: every case variant
\* of a member gives 1.0, a member with an extra character gives 0.0 unless
\* the longer string is itself a member, and "password" has is_common 1.0
\* and has_sequence 0
C9_IsCommon ==
    Returned =>
        /\ Feature("is_common") \in {0, 1}
        /\ Feature("is_common") = 1 <=> lower(password) \in CommonPasswords
        /\ (\E m \in CommonPasswords :
               /\ Len(m) = Len(password)
               /\ \A i \in 1..Len(m) : LowerPoint(password[i]) = m[i])
              => Feature("is_common") = 1
        /\ (OneCharExtra(password) /\ lower(password) \notin CommonPasswords)
              => Feature("is_common") = 0
        /\ password = <<112, 97, 115, 115, 119, 111, 114, 100, 115>>
              => OneCharExtra(password) /\ Feature("is_common") = 0
        /\ password = <<112, 97, 115, 115, 119, 111, 114, 100, 49>>
              => OneCharExtra(password) /\ Feature("is_common") = 1
        /\ password = <<112, 97, 115, 115, 119, 111, 114, 100>>
              => Feature("is_common") = 1 /\ Feature("has_sequence") = 0

\* "PassWord", a case variant that is not itself in the set, is common
C9_Witness ==
    /\ Returned
    /\ password = <<80, 97, 115, 115, 87, 111, 114, 100>>
    /\ password \notin CommonPasswords
    /\ Feature("is_common") = 1

\* C10: in every returned feature vector has_sequence is 1.0 exactly when
\* sequential_chars > 0 and has_repetition is 1.0 exactly when
\* repeated_chars > 0, and both flags are 0.0 or 1.0
C10_FlagsFollowCounts ==
    Returned =>
        /\ Feature("has_sequence") \in {0, 1}
        /\ Feature("has_repetition") \in {0, 1}
        /\ Feature("has_sequence") = 1 <=> Feature("sequential_chars") > 0
        /\ Feature("has_repetition") = 1 <=> Feature("repeated_chars") > 0

\* "aaa" has one repeated window and no ascending one
C10_Witness ==
    /\ Returned
    /\ password = <<97, 97, 97>>
    /\ Feature("repeated_chars") = 1
    /\ Feature("has_repetition") = 1
    /\ Feature("has_sequence") = 0

\* ------------------------------------------------------------------------
\* A later call on the same extractor
\* ------------------------------------------------------------------------

\* longest password a character is appended to
MaxAppendLen == 3

\* '!', '1', 'B', 'a', U+0130 and the caseless letter U+4E2D
AppendAlphabet == {33, 49, 66, 97, 304, 20013}

AppendPasswords == UNION { [1..n -> AppendAlphabet] : n \in 0..MaxAppendLen }

InitAppend ==
    /\ common_passwords = CommonPasswords
    /\ password \in AppendPasswords
    /\ called = "none"
    /\ ret = Ok(0)
    /\ OthersIdle

\* self.extract_features(password + c), after extract_features(password)
CallExtractFeaturesAppended ==
    /\ called = "extract_features"
    /\ called2 = "none"
    /\ \E c \in AppendAlphabet :
        /\ password2' = Append(password, c)
        /\ ret2' = extract_features(common_passwords, Append(password, c))
    /\ called2' = "extract_features"
    /\ UNCHANGED <<common_passwords, password, called, ret, log, objects, output, terminal, generator>>

NextAppend ==
    \/ CallExtractFeatures
    \/ CallExtractFeaturesAppended

SpecAppend == InitAppend /\ [][NextAppend]_vars

\* longest password whose characters are reordered
MaxPermuteLen == 6

\* 'a', 'b', 'c'
PermuteAlphabet == {97, 98, 99}

PermutePasswords == UNION { [1..n -> PermuteAlphabet] : n \in 0..MaxPermuteLen }

\* s with the characters at positions i and j exchanged
Swap(s, i, j) ==
    [k \in 1..Len(s) |-> IF k = i THEN s[j] ELSE IF k = j THEN s[i] ELSE s[k]]

InitPermute ==
    /\ common_passwords = CommonPasswords
    /\ password \in PermutePasswords
    /\ called = "none"
    /\ ret = Ok(0)
    /\ OthersIdle

\* self._calculate_entropy(q) for q a reordering of password (two of its
\* characters exchanged), after _calculate_entropy(password)
CallCalculateEntropyPermuted ==
    /\ called = "_calculate_entropy"
    /\ called2 = "none"
    /\ \E i \in 1..Len(password), j \in 1..Len(password) :
        /\ i < j
        /\ password2' = Swap(password, i, j)
        /\ ret2' = Ok(calculate_entropy(Swap(password, i, j)))
    /\ called2' = "_calculate_entropy"
    /\ UNCHANGED <<common_passwords, password, called, ret, log, objects, output, terminal, generator>>

NextPermute ==
    \/ CallCalculateEntropy
    \/ CallCalculateEntropyPermuted

SpecPermute == InitPermute /\ [][NextPermute]_vars

\* calls of extract_features on one extractor
MaxCalls == 3

\* "", "a", "password", "PASSWORD", "Sample1!" and ab + U+0130 + !
RepeatPasswords ==
    { <<>>,
      <<97>>,
      <<112, 97, 115, 115, 119, 111, 114, 100>>,
      <<80, 65, 83, 83, 87, 79, 82, 68>>,
      <<83, 97, 109, 112, 108, 101, 49, 33>>,
      <<97, 98, 304, 33>> }

InitRepeat ==
    /\ common_passwords = CommonPasswords
    /\ password \in RepeatPasswords
    /\ called = "none"
    /\ ret = Ok(0)
    /\ OthersIdle

\* one more self.extract_features(p) on the same extractor; the call before
\* it goes to the log
CallExtractFeaturesAgain ==
    /\ called = "extract_features"
    /\ Len(log) + 1 < MaxCalls
    /\ \E p \in RepeatPasswords :
        /\ password' = p
        /\ ret' = extract_features(common_passwords, p)
        /\ common_passwords' = attributes_after_call(common_passwords, p)
    /\ log' = Append(log, <<password, ret>>)
    /\ UNCHANGED <<called, later, objects, output, terminal, generator>>

NextRepeat ==
    \/ CallExtractFeatures
    \/ CallExtractFeaturesAgain

SpecRepeat == InitRepeat /\ [][NextRepeat]_vars

\* ------------------------------------------------------------------------
\* Properties of the character classes, the entropy and repeated calls
\* ------------------------------------------------------------------------

\* extract_features returned for password and for password + c
ReturnedBoth ==
    /\ Returned
    /\ called2 = "extract_features"
    /\ ret2.exc = "none"

\* c is uppercase, lowercase, a digit or special
InClass(c) == isupper(c) \/ islower(c) \/ isdigit(c) \/ ~isalnum(c)

\* C11: char_type_count is the sum of the four has_* flags, a value in 0..4;
\* appending a character c to p never lowers it, and raises it when c is in
\* one of the four classes and no character of p is.
C11_CharTypeCount ==
    /\ Returned =>
        /\ Feature("char_type_count")
            = Feature("has_uppercase") + Feature("has_lowercase")
              + Feature("has_digits") + Feature("has_special")
        /\ Feature("char_type_count") \in 0..4
    /\ ReturnedBoth =>
        /\ DictGet(ret2.val, "char_type_count") >= Feature("char_type_count")
        /\ ( /\ InClass(password2[Len(password2)])
             /\ \A i \in 1..Len(password) : ~InClass(password[i]) )
           => DictGet(ret2.val, "char_type_count") > Feature("char_type_count")

\* a class character appended to a non-empty password of classless letters
C11_Witness ==
    /\ ReturnedBoth
    /\ password # <<>>
    /\ \A i \in 1..Len(password) : ~InClass(password[i])
    /\ InClass(password2[Len(password2)])
    /\ Feature("char_type_count") = 0
    /\ DictGet(ret2.val, "char_type_count") = 1

\* C12: _calculate_entropy returns the identical value for a password and
\* for every reordering of its characters.
C12_PermutationInvariant ==
    (called = "_calculate_entropy" /\ called2 = "_calculate_entropy")
        => ret2 = ret

Labels == {0, 1, 2}

\* PasswordStrengthClassifier.load_model()
ClassifierLoadModel ==
    /\ pc = "idle"
    /\ \E r \in { classifier_load_model(classifier, model_file) } :
           /\ classifier' = r.self
           /\ printed' = r.printed
           /\ ret' = r.ret
    /\ predicted' = <<>>
    /\ called' = "PasswordStrengthClassifier.load_model"
    /\ UNCHANGED <<common_passwords, password, later, log, model_file, trainer,
                   trainings, evaluator, terminal, generator>>

\* PasswordStrengthClassifier.classify(password)
Classify ==
    /\ pc = "idle"
    /\ \E label \in Labels :
        \E r \in { classify(classifier, model_file, common_passwords, password, label) } :
            /\ classifier' = r.self
            /\ printed' = r.printed
            /\ predicted' = r.predicted
            /\ ret' = r.ret
    /\ called' = "classify"
    /\ UNCHANGED <<common_passwords, password, later, log, model_file, trainer,
                   trainings, evaluator, terminal, generator>>

\* PasswordStrengthClassifier.batch_mode(passwords), for a list of no or of
\* two passwords
BatchMode ==
    /\ pc = "idle"
    /\ \E label \in Labels :
       \E list \in {<<>>, <<password, password>>} :
        \E r \in { batch_mode(classifier, model_file, common_passwords, list, label) } :
            /\ classifier' = r.self
            /\ printed' = r.printed
            /\ predicted' = r.predicted
            /\ ret' = r.ret
    /\ called' = "batch_mode"
    /\ UNCHANGED <<common_passwords, password, later, log, model_file, trainer,
                   trainings, evaluator, terminal, generator>>

\* ModelEvaluator.load_model()
EvaluatorLoadModel ==
    /\ pc = "idle"
    /\ \E r \in { evaluator_load_model(evaluator, model_file) } :
           /\ evaluator' = r.self
           /\ printed' = r.printed
           /\ ret' = r.ret
    /\ predicted' = <<>>
    /\ called' = "ModelEvaluator.load_model"
    /\ UNCHANGED <<common_passwords, password, later, log, model_file, trainer,
                   trainings, classifier, terminal, generator>>

\* ModelEvaluator.predict_password_strength(password)
PredictPasswordStrength ==
    /\ pc = "idle"
    /\ \E label \in Labels :
        \E r \in { predict_password_strength(evaluator, model_file, common_passwords,
                                           password, label) } :
            /\ evaluator' = r.self
            /\ printed' = r.printed
            /\ predicted' = r.predicted
            /\ ret' = r.ret
    /\ called' = "predict_password_strength"
    /\ UNCHANGED <<common_passwords, password, later, log, model_file, trainer,
                   trainings, classifier, terminal, generator>>

\* ------------------------------------------------------------------------
\* interactive_mode, one action for its start and one for each way an
\* iteration of its loop goes
\* ------------------------------------------------------------------------

\* what input() meets: a line, Ctrl-C (KeyboardInterrupt) or Ctrl-D (EOFError)
Line(text) == [kind |-> "line", text |-> text]

Interrupt == [kind |-> "interrupt", text |-> <<>>]

EndOfFile == [kind |-> "eof", text |-> <<>>]

\* the banner and self.load_model(); the first prompt when it returns True
InteractiveModeStart ==
    /\ pc = "idle"
    /\ \E r \in { classifier_load_model(classifier, model_file) } :
           /\ classifier' = r.self
           /\ printed' = <<"Password Strength Classifier">> \o r.printed
           /\ pc' = IF r.ret.val THEN "loop" ELSE "idle"
           /\ prompts' = IF r.ret.val THEN 1 ELSE 0
    /\ called' = "interactive_mode"
    /\ ret' = Ok(None)
    /\ predicted' = <<>>
    /\ classified' = <<>>
    /\ consumed' = <<>>
    /\ UNCHANGED <<common_passwords, password, later, log, model_file, trainer,
                   trainings, evaluator, stdin, generator>>

\* input() returns a line that is a quit word: break
InteractiveQuit ==
    /\ pc = "loop"
    /\ stdin # <<>>
    /\ Head(stdin).kind = "line"
    /\ is_quit_word(strip(Head(stdin).text))
    /\ stdin' = Tail(stdin)
    /\ consumed' = Append(consumed, Head(stdin))
    /\ printed' = <<"Goodbye!">>
    /\ predicted' = <<>>
    /\ pc' = "idle"
    /\ UNCHANGED <<common_passwords, password, called, ret, later, log, objects,
                   prompts, classified, generator>>

\* input() returns a line that strips to nothing: continue
InteractiveEmpty ==
    /\ pc = "loop"
    /\ stdin # <<>>
    /\ Head(stdin).kind = "line"
    /\ ~is_quit_word(strip(Head(stdin).text))
    /\ strip(Head(stdin).text) = <<>>
    /\ stdin' = Tail(stdin)
    /\ consumed' = Append(consumed, Head(stdin))
    /\ printed' = <<"Please enter a password.">>
    /\ predicted' = <<>>
    /\ prompts' = prompts + 1
    /\ UNCHANGED <<common_passwords, password, called, ret, later, log, objects,
                   pc, classified, generator>>

\* input() returns any other line: classify and display it; an exception
\* is caught and printed
InteractiveClassify ==
    /\ pc = "loop"
    /\ stdin # <<>>
    /\ Head(stdin).kind = "line"
    /\ ~is_quit_word(strip(Head(stdin).text))
    /\ strip(Head(stdin).text) # <<>>
    /\ \E label \in Labels :
        \E r \in { classify(classifier, model_file, common_passwords,
                          strip(Head(stdin).text), label) } :
            /\ classifier' = r.self
            /\ predicted' = r.predicted
            /\ printed' = r.printed \o
                    (IF r.ret.exc # "none" THEN <<"Error">>
                     ELSE IF r.ret.val = None THEN <<"">>
                     ELSE <<"PASSWORD STRENGTH ANALYSIS", "">>)
    /\ classified' = Append(classified, strip(Head(stdin).text))
    /\ stdin' = Tail(stdin)
    /\ consumed' = Append(consumed, Head(stdin))
    /\ prompts' = prompts + 1
    /\ UNCHANGED <<common_passwords, password, called, ret, later, log, model_file,
                   trainer, trainings, evaluator, pc, generator>>

\* input() raises KeyboardInterrupt: break
InteractiveInterrupt ==
    /\ pc = "loop"
    /\ stdin # <<>>
    /\ Head(stdin).kind = "interrupt"
    /\ stdin' = Tail(stdin)
    /\ consumed' = Append(consumed, Head(stdin))
    /\ printed' = <<"Goodbye!">>
    /\ predicted' = <<>>
    /\ pc' = "idle"
    /\ UNCHANGED <<common_passwords, password, called, ret, later, log, objects,
                   prompts, classified, generator>>

\* input() raises EOFError: caught by except Exception and printed
InteractiveEndOfFile ==
    /\ pc = "loop"
    /\ stdin # <<>>
    /\ Head(stdin).kind = "eof"
    /\ stdin' = Tail(stdin)
    /\ consumed' = Append(consumed, Head(stdin))
    /\ printed' = <<"Error">>
    /\ predicted' = <<>>
    /\ prompts' = prompts + 1
    /\ UNCHANGED <<common_passwords, password, called, ret, later, log, objects,
                   pc, classified, generator>>

\* ------------------------------------------------------------------------
\* Inference on the files that may be at model_path; nothing is typed at
\* the terminal, so interactive_mode waits at its first prompt
\* ------------------------------------------------------------------------

\* the extractor's keys: the feature columns of a dataset generated now
CurrentKeys == get_feature_names(CommonPasswords).val

\* s backwards
Reversed(s) == [i \in 1..Len(s) |-> s[Len(s) + 1 - i]]

\* feature column lists of a stored bundle: the current keys, the same in
\* another order, some of them, and one with a key of another schema
ColumnLists ==
    { CurrentKeys, Reversed(CurrentKeys), SubSeq(CurrentKeys, 1, 3),
      <<"length", "old_feature">> }

\* the bundle save_model writes for the model named and the columns given
SavedBundle(name, columns, n) ==
    Pickle(Bundle(Model(name, fit_on_scaled(name), 1), Scaler(1),
                  List(columns), Str(name), n))

\* what may be at model_path: nothing, no pickle, a bundle cut short, a
\* bundle of each model, and a bundle with each column list
StoredFiles ==
    {FileMissing, FileCorrupt}
    \cup { SavedBundle("Random Forest", CurrentKeys, n) : n \in 0..3 }
    \cup { SavedBundle(model_configs[i], CurrentKeys, 4) : i \in 1..4 }
    \cup { SavedBundle("SVM", columns, 4) : columns \in ColumnLists }

\* "Sample1!" and ab + U+0130 + !
InferencePasswords == { SamplePassword, <<97, 98, 304, 33>> }

InitInference ==
    /\ model_file \in StoredFiles
    /\ common_passwords = CommonPasswords
    /\ password \in InferencePasswords
    /\ called = "none"
    /\ ret = Ok(0)
    /\ LaterIdle
    /\ log = <<>>
    /\ ObjectsIdle
    /\ stdin = <<>>
    /\ TerminalIdle
    /\ GeneratorIdle

NextInference ==
    \/ ClassifierLoadModel
    \/ Classify
    \/ BatchMode
    \/ EvaluatorLoadModel
    \/ PredictPasswordStrength
    \/ InteractiveModeStart

SpecInference == InitInference /\ [][NextInference]_vars

\* ------------------------------------------------------------------------
\* Properties of loading and inference
\* ------------------------------------------------------------------------

\* the file at model_path is missing, no pickle, or a bundle cut short
Unloadable ==
    model_file.state # "pickle" \/ Len(model_file.obj.keys) < 4

\* the methods that load the model
LoadingCalls ==
    { "PasswordStrengthClassifier.load_model", "classify", "batch_mode",
      "interactive_mode", "ModelEvaluator.load_model", "predict_password_strength" }

\* C14: when the persisted model is missing or corrupt, every method that
\* loads it returns (no exception leaves it), has printed a message and has
\* made no prediction.
C14_FailedLoadReported ==
    (Unloadable /\ called \in LoadingCalls) =>
        /\ ret.exc = "none"
        /\ printed # <<>>
        /\ predicted = <<>>

\* the feature columns of the bundle at model_path
StoredColumns == DictGet(model_file.obj, "feature_columns").items

\* C15: when the loaded model's feature_columns differ from the extractor's
\* keys, as a set or in order, classify and predict_password_strength fail
\* before predict is called; when they are the same, the array given to
\* predict lists the feature values in the order of feature_columns.
C15_ColumnsValidated ==
    (~Unloadable /\ called \in {"classify", "predict_password_strength"}) =>
        /\ StoredColumns # CurrentKeys =>
            (predicted = <<>> /\ ret.exc # "none")
        /\ (StoredColumns = CurrentKeys /\ predicted # <<>>) =>
            /\ Len(predicted[1].array.values) = Len(StoredColumns)
            /\ \A i \in 1..Len(StoredColumns) :
                predicted[1].array.values[i]
                    = DictGet(extract_features(CommonPasswords, password).val,
                              StoredColumns[i])

\* ------------------------------------------------------------------------
\* Calls on the trainer, and inference on the file it saves
\* ------------------------------------------------------------------------

\* samples of the validation split: accuracy_score is k / ValSize, kept as k
ValSize == 1

\* calls of train_models on one trainer
MaxTrainings == 2

\* load_data: the feature columns are the dataset's columns but password,
\* strength_label and strength_name
LoadData ==
    /\ pc = "idle"
    /\ trainer' = [trainer EXCEPT !.feature_columns = List(CurrentKeys)]
    /\ called' = "load_data"
    /\ ret' = Ok(None)
    /\ printed' = <<"Loading dataset", "Loaded samples", "Feature columns">>
    /\ predicted' = <<>>
    /\ UNCHANGED <<common_passwords, password, later, log, model_file, trainings,
                   classifier, evaluator, terminal, generator>>

\* train_models on a split whose validation part the four models get right
\* in accuracy[i] samples
TrainModels ==
    /\ pc = "idle"
    /\ trainings < MaxTrainings
    /\ \E accuracy \in [1..4 -> 0..ValSize] :
        \E r \in { train_models(trainer, accuracy, trainings + 1) } :
            /\ trainer' = r.self
            /\ predicted' = r.predicted
            /\ ret' = r.ret
    /\ trainings' = trainings + 1
    /\ called' = "train_models"
    /\ printed' = <<"Training Multiple Models", "Best Model">>
    /\ UNCHANGED <<common_passwords, password, later, log, model_file, classifier,
                   evaluator, terminal, generator>>

EvaluateBestModel ==
    /\ pc = "idle"
    /\ \E r \in { evaluate_best_model(trainer) } :
        /\ predicted' = r.predicted
        /\ ret' = r.ret
    /\ called' = "evaluate_best_model"
    /\ printed' = <<"Evaluating on test set">>
    /\ UNCHANGED <<common_passwords, password, later, log, objects, terminal, generator>>

SaveModel ==
    /\ pc = "idle"
    /\ \E r \in { save_model(trainer, model_file) } :
        /\ model_file' = r.file
        /\ ret' = r.ret
        /\ printed' = IF r.ret.exc = "none" THEN <<"Model saved">> ELSE <<>>
    /\ called' = "save_model"
    /\ predicted' = <<>>
    /\ UNCHANGED <<common_passwords, password, later, log, trainer, trainings,
                   classifier, evaluator, terminal, generator>>

\* main(): a classifier constructed for this run classifies the password
\* from the file save_model left, and ends with the process
ClassifyInNewProcess ==
    /\ pc = "idle"
    /\ \E label \in Labels :
        \E r \in { classify(NewObject, model_file, common_passwords, password, label) } :
            /\ printed' = r.printed
            /\ predicted' = r.predicted
            /\ ret' = r.ret
    /\ called' = "classify"
    /\ UNCHANGED <<common_passwords, password, later, log, objects, terminal, generator>>

\* test_sample_passwords of evaluate_model's main block, on an evaluator
\* constructed for this run
PredictInNewProcess ==
    /\ pc = "idle"
    /\ \E label \in Labels :
        \E r \in { predict_password_strength(NewObject, model_file, common_passwords,
                                           password, label) } :
            /\ printed' = r.printed
            /\ predicted' = r.predicted
            /\ ret' = r.ret
    /\ called' = "predict_password_strength"
    /\ UNCHANGED <<common_passwords, password, later, log, objects, terminal, generator>>

\* evaluate_on_dataset of evaluate_model's main block, on a dataset
\* generated by the current extractor
EvaluateInNewProcess ==
    /\ pc = "idle"
    /\ \E r \in { evaluate_on_dataset(NewObject, model_file, CurrentKeys) } :
        /\ printed' = r.printed
        /\ predicted' = r.predicted
        /\ ret' = r.ret
    /\ called' = "evaluate_on_dataset"
    /\ UNCHANGED <<common_passwords, password, later, log, objects, terminal, generator>>

InitTraining ==
    /\ common_passwords = CommonPasswords
    /\ password = SamplePassword
    /\ called = "none"
    /\ ret = Ok(0)
    /\ LaterIdle
    /\ log = <<>>
    /\ model_file = FileMissing
    /\ ObjectsIdle
    /\ stdin = <<>>
    /\ TerminalIdle
    /\ GeneratorIdle

NextTraining ==
    \/ LoadData
    \/ TrainModels
    \/ EvaluateBestModel
    \/ SaveModel
    \/ ClassifyInNewProcess
    \/ PredictInNewProcess
    \/ EvaluateInNewProcess

SpecTraining == InitTraining /\ [][NextTraining]_vars

\* the validation accuracy recorded for the i-th model of model_configs
RecordedAccuracy(i) == DictGet(trainer.models, model_configs[i]).accuracy

\* the i-th model of model_configs is the one kept as best_model
KeptAsBest(i) ==
    /\ trainer.best_model = DictGet(trainer.models, model_configs[i]).model
    /\ trainer.best_model_name = Str(model_configs[i])

\* C16: after train_models returns, best_model is one of the four trained
\* models, never None, its validation accuracy is at least that of every
\* other trained model and above that of every model trained before it, and
\* save_model raises ValueError only when train_models has not been called
C16_BestModelSelected ==
    /\ (called = "train_models" /\ ret.exc = "none") =>
        /\ trainer.best_model # None
        /\ \E i \in 1..4 :
            /\ KeptAsBest(i)
            /\ \A j \in 1..4 : RecordedAccuracy(j) <= RecordedAccuracy(i)
            /\ \A j \in 1..(i - 1) : RecordedAccuracy(j) < RecordedAccuracy(i)
    /\ (called = "save_model" /\ ret = Raise("ValueError")) => trainings = 0

\* the calls that hand the saved or the best model its inputs
ScalingCalls ==
    {"classify", "predict_password_strength", "evaluate_on_dataset",
     "evaluate_best_model"}

\* C17: in classify, predict_password_strength, evaluate_on_dataset and
\* evaluate_best_model the model receives scaler-transformed inputs if and
\* only if it was fitted on scaler-transformed inputs, and the scaler that
\* transformed them is the one fitted on the split the model was fitted on
C17_ScalingConsistent ==
    called \in ScalingCalls =>
        \A i \in 1..Len(predicted) :
            /\ (predicted[i].array.scaled_by # None) <=> predicted[i].model.scaled
            /\ predicted[i].model.scaled =>
                predicted[i].array.scaled_by = Scaler(predicted[i].model.fit)

\* ------------------------------------------------------------------------
\* interactive_mode on what is typed at the terminal
\* ------------------------------------------------------------------------

\* events input() meets in one run
MaxLines == 3

\* quit, " Exit ", the empty line, two spaces, " aB1! ", ab + U+0130 + !
\* (its classification raises TypeError), Ctrl-C and Ctrl-D
TerminalEvents ==
    { Line(<<113, 117, 105, 116>>), Line(<<32, 69, 120, 105, 116, 32>>),
      Line(<<>>), Line(<<32, 32>>), Line(<<32, 97, 66, 49, 33, 32>>),
      Line(<<97, 98, 304, 33>>), Interrupt, EndOfFile }

InitInteractive ==
    /\ model_file \in {FileMissing, SavedBundle("Random Forest", CurrentKeys, 4)}
    /\ stdin \in UNION { [1..n -> TerminalEvents] : n \in 0..MaxLines }
    /\ common_passwords = CommonPasswords
    /\ password = <<>>
    /\ called = "none"
    /\ ret = Ok(0)
    /\ LaterIdle
    /\ log = <<>>
    /\ ObjectsIdle
    /\ TerminalIdle
    /\ GeneratorIdle

NextInteractive ==
    \/ InteractiveModeStart
    \/ InteractiveQuit
    \/ InteractiveEmpty
    \/ InteractiveClassify
    \/ InteractiveInterrupt
    \/ InteractiveEndOfFile

SpecInteractive == InitInteractive /\ [][NextInteractive]_vars

\* the positions of text that hold no blank
Inked(text) == { i \in 1..Len(text) : text[i] \notin {9, 10, 11, 12, 13, 32} }

\* text without its leading and trailing blanks
Trimmed(text) ==
    IF Inked(text) = {} THEN <<>>
    ELSE SubSeq(text, CHOOSE i \in Inked(text) : \A j \in Inked(text) : i <= j,
                      CHOOSE i \in Inked(text) : \A j \in Inked(text) : j <= i)

\* text reads quit, exit or q when trimmed and lowercased
QuitLine(text) ==
    [i \in 1..Len(Trimmed(text)) |-> LowerPoint(Trimmed(text)[i])]
        \in { <<113, 117, 105, 116>>, <<101, 120, 105, 116>>, <<113>> }

\* the events that may end the loop: a quit word and KeyboardInterrupt
Ending(event) ==
    \/ event.kind = "interrupt"
    \/ event.kind = "line" /\ QuitLine(event.text)

\* the lines that are to be classified: not empty once trimmed, no quit word
ToClassify(event) ==
    /\ event.kind = "line"
    /\ Trimmed(event.text) # <<>>
    /\ ~QuitLine(event.text)

\* C18: interactive_mode shows no prompt when the model fails to load;
\* otherwise the loop has ended exactly when the last event read is a quit
\* word or KeyboardInterrupt, every event before it was followed by a new
\* prompt (also one whose classification raised), and classify was invoked
\* once, in order, on the trimmed text of every line that is neither empty
\* nor a quit word, and on nothing else
C18_InteractiveLoop ==
    called = "interactive_mode" =>
        /\ Unloadable => (prompts = 0 /\ pc = "idle" /\ consumed = <<>>)
        /\ ~Unloadable =>
            /\ pc = "idle" => consumed # <<>>
            /\ \A i \in 1..Len(consumed) :
                Ending(consumed[i]) <=> (i = Len(consumed) /\ pc = "idle")
            /\ prompts = Len(consumed) + (IF pc = "loop" THEN 1 ELSE 0)
            /\ Len(classified) = Len(SelectSeq(consumed, ToClassify))
            /\ \A i \in 1..Len(classified) :
                classified[i] = Trimmed(SelectSeq(consumed, ToClassify)[i].text)

\* a line whose classification raised was followed by a classified line and
\* the loop ended on " Exit "
C18_Witness ==
    /\ called = "interactive_mode"
    /\ pc = "idle"
    /\ consumed = << Line(<<97, 98, 304, 33>>), Line(<<32, 97, 66, 49, 33, 32>>),
                     Line(<<32, 69, 120, 105, 116, 32>>) >>
    /\ classified = << <<97, 98, 304, 33>>, <<97, 66, 49, 33>> >>

\* no prompt was shown because the model file is missing
C18_WitnessNoModel ==
    /\ called = "interactive_mode"
    /\ Unloadable
    /\ stdin # <<>>
    /\ prompts = 0

\* ------------------------------------------------------------------------
\* generate_strong_passwords, one action for the call, one for each
\* iteration of its loop and one for the return
\* ------------------------------------------------------------------------

\* the largest count asked for
MaxCount == 1

\* strings random.choices may draw, of length n: one class throughout, one
\* class but for the first character, and one with all four classes
RandomStrings(n) ==
    { [i \in 1..n |-> 49], [i \in 1..n |-> 97],
      [i \in 1..n |-> IF i = 1 THEN 65 ELSE 49],
      [i \in 1..n |-> IF i = 1 THEN 33 ELSE 97],
      [i \in 1..n |-> IF i = 1 THEN 65 ELSE IF i = 2 THEN 97 ELSE IF i = 3 THEN 33 ELSE 49] }

GenerateStrongPasswords ==
    /\ pc = "idle"
    /\ step = "idle"
    /\ count' \in 0..MaxCount
    /\ passwords' = <<>>
    /\ draft' = <<>>
    /\ step' = "loop"
    /\ called' = "none"
    /\ ret' = Ok(0)
    /\ UNCHANGED <<common_passwords, password, later, log, objects, output, terminal>>

\* one iteration of for _ in range(count)
GenerateOne ==
    /\ step = "loop"
    /\ Len(passwords) < count
    /\ \E length \in MinLength..MaxLength :
        \E drawn \in RandomStrings(length) :
            /\ draft' = drawn
            /\ \E made \in strong_password(drawn) :
                passwords' = Append(passwords, made)
    /\ UNCHANGED <<common_passwords, password, called, ret, later, log, objects,
                   output, terminal, count, step>>

\* return passwords[:count]
ReturnPasswords ==
    /\ step = "loop"
    /\ Len(passwords) >= count
    /\ ret' = Ok(SubSeq(passwords, 1, count))
    /\ called' = "generate_strong_passwords"
    /\ step' = "idle"
    /\ UNCHANGED <<common_passwords, password, later, log, objects, output,
                   terminal, count, passwords, draft>>

InitGenerator ==
    /\ common_passwords = CommonPasswords
    /\ password = <<>>
    /\ called = "none"
    /\ ret = Ok(0)
    /\ OthersIdle

NextGenerator ==
    \/ GenerateStrongPasswords
    \/ GenerateOne
    \/ ReturnPasswords

SpecGenerator == InitGenerator /\ [][NextGenerator]_vars

\* text has a character of each of the four classes
FourClasses(text) ==
    /\ \E i \in 1..Len(text) : text[i] \in 65..90
    /\ \E i \in 1..Len(text) : text[i] \in 97..122
    /\ \E i \in 1..Len(text) : text[i] \in 48..57
    /\ \E i \in 1..Len(text) : text[i] \in special_chars

\* C19: the list generate_strong_passwords returns has exactly count
\* entries, and each holds an uppercase letter, a lowercase letter, a digit
\* and a special character
C19_StrongPasswords ==
    called = "generate_strong_passwords" =>
        /\ Len(ret.val) = count
        /\ \A i \in 1..Len(ret.val) : FourClasses(ret.val[i])

====
